---- MODULE Spec2Model ----
(***************************************************************************)
(* Model of src/src/main.rs (DatingSimulation): Individual::new,           *)
(* Individual::score, Sample::new, Sample::liked, Sample::match_making,    *)
(* Sample::display_statistics and the driver loop of main.                 *)
(*                                                                         *)
(* Option<T> is a sequence of length 0 (None) or 1 (Some(x)).  The f32     *)
(* weights, ratings and scores are integers (fixed point); the uuid        *)
(* identity is the creation number of the individual, which keeps the      *)
(* one property the code relies on: identities are pairwise distinct.      *)
(* A step of match_making is one iteration of its inner loop; liked, which *)
(* runs without interruption inside such an iteration, is part of the step.*)
(***************************************************************************)
EXTENDS Integers, Sequences, FiniteSets, TLC

\* ---- bounds of the model ------------------------------------------------
\* largest population_size passed to Sample::new
MaxPop == 4
\* largest preference_complexity
MaxD == 2
\* number of rounds main's loop is followed for (rounds = 100 in the code)
MaxRounds == 3
\* largest population_size * preference_complexity passed to Sample::new
MaxCells == 6
\* largest male and female population of a Sample assembled field by field
MaxLiteral == 2

VARIABLES
    male_population,               \* Sample.male_population
    female_population,             \* Sample.female_population
    population_size,               \* argument of Sample::new
    preference_complexity,         \* argument of Sample::new
    specified_predefined_weights,  \* argument of Sample::new (Option)
    origin,                        \* "new": built by Sample::new; "literal": assembled from the pub fields
    created,                       \* iterations of the loop of Sample::new completed
    pc,                            \* position of the program
    mi,                            \* position of the outer loop of match_making (1-based)
    fi,                            \* position of the inner loop of match_making (1-based)
    ev,                            \* branch taken by the last inner-loop iteration
    result,                        \* value returned by the last match_making
    current_round,                 \* main's current_round
    report,                        \* numbers printed by the last display_statistics
    at_call                        \* the two populations as the running or last match_making found them

vars == <<male_population, female_population, population_size,
          preference_complexity, specified_predefined_weights, origin,
          created, pc, mi, fi, ev, result, current_round, report, at_call>>

\* ---- Option ---------------------------------------------------------------
None == <<>>
Some(x) == <<x>>
IsSome(o) == Len(o) = 1
Unwrap(o) == o[1]

Min(a, b) == IF a < b THEN a ELSE b

\* all vectors of length n over S
Vecs(S, n) == [1..n -> S]

\* rng.gen() draws a weight from [0, 1): two of its values, scaled
WeightVals == {0, 1}
\* gen_range(1.0..=10.0) draws a rating: two of its values, scaled
RatingVals == {1, 2}

\* ---- enum Gender ----------------------------------------------------------
Genders == {"Male", "Female"}

\* ---- Individual::new ------------------------------------------------------
\* the panic of Individual::new: a supplied vector of the wrong length
WrongSizeNever(complexity, specified) == FALSE

WrongSize(complexity, specified) ==
    IsSome(specified) /\ Len(Unwrap(specified)) # complexity

\* the weight vectors Individual::new can end up with
NewWeights(complexity, specified) ==
    IF IsSome(specified)
    THEN {Unwrap(specified)}
    ELSE Vecs(WeightVals, complexity)

\* the struct literal returned by Individual::new
MkIndividual(id, g, w, r) ==
    [identity |-> id, gender |-> g, preference_weights |-> w, ratings |-> r,
     blacklist |-> <<>>, candidate |-> None, candidate_score |-> None]

\* ---- Individual::score ----------------------------------------------------
RECURSIVE ZipSum(_, _, _)
\* iter().zip().map(|(w, r)| w * r).sum(), over the first n pairs
ZipSum(w, r, n) == IF n = 0 THEN 0 ELSE ZipSum(w, r, n - 1) + w[n] * r[n]

ScoreMismatchNever(self, matcher) == FALSE

\* the Err branch of score
ScoreMismatch(self, matcher) ==
    Len(self.preference_weights) # Len(matcher.ratings)

ScoreReversed(self, matcher) ==
    ZipSum(matcher.preference_weights, self.ratings,
           Min(Len(matcher.preference_weights), Len(self.ratings)))

\* the Ok value of score: self's weights against matcher's ratings
Score(self, matcher) ==
    ZipSum(self.preference_weights, matcher.ratings,
           Min(Len(self.preference_weights), Len(matcher.ratings)))

\* ---- Sample::liked --------------------------------------------------------
LikedKeepsHolder(female_individual, male_individual, score) ==
    [female |-> [female_individual EXCEPT
                   !.candidate = IF IsSome(@) THEN @
                                 ELSE Some(male_individual.identity),
                   !.candidate_score = Some(score)],
     male   |-> [male_individual EXCEPT
                   !.candidate = Some(female_individual.identity),
                   !.candidate_score = Some(score)]]

LikedFemaleOnly(female_individual, male_individual, score) ==
    [female |-> [female_individual EXCEPT
                   !.candidate = Some(male_individual.identity),
                   !.candidate_score = Some(score)],
     male   |-> male_individual]

LikedNoScore(female_individual, male_individual, score) ==
    [female |-> [female_individual EXCEPT
                   !.candidate = Some(male_individual.identity)],
     male   |-> [male_individual EXCEPT
                   !.candidate = Some(female_individual.identity),
                   !.candidate_score = Some(score)]]

Liked(female_individual, male_individual, score) ==
    [female |-> [female_individual EXCEPT
                   !.candidate = Some(male_individual.identity),
                   !.candidate_score = Some(score)],
     male   |-> [male_individual EXCEPT
                   !.candidate = Some(female_individual.identity),
                   !.candidate_score = Some(score)]]

\* ---- Sample::match_making: the tests of the inner loop --------------------
ContainsNever(blacklist, identity) == FALSE

\* Vec::contains
Contains(blacklist, identity) ==
    \E i \in 1..Len(blacklist) : blacklist[i] = identity

PushNothing(blacklist, identity) == blacklist

\* Vec::push
Push(blacklist, identity) == Append(blacklist, identity)

RejectsOrEqual(score, female_individual) ==
    score <= Unwrap(female_individual.candidate_score)

RejectsNever(score, female_individual) == FALSE

\* score < female_individual.candidate_score.unwrap()
Rejects(score, female_individual) ==
    score < Unwrap(female_individual.candidate_score)

NoBreak(i, j) == [mi |-> i, fi |-> j + 1]

\* break: the loops go on with the first female for the next male
Break(i, j) == [mi |-> i + 1, fi |-> 1]

NoEv == [kind |-> "none", m |-> 0, f |-> 0, score |-> None]

\* ---- Sample::display_statistics -------------------------------------------
\* index of the first female whose candidate is this male (0 if none): the
\* inner loop with its break
FirstHolder(females, male_individual) ==
    IF \E j \in 1..Len(females) : females[j].candidate = Some(male_individual.identity)
    THEN CHOOSE j \in 1..Len(females) :
            /\ females[j].candidate = Some(male_individual.identity)
            /\ \A k \in 1..(j - 1) : females[k].candidate # Some(male_individual.identity)
    ELSE 0

MatchedMalesByCandidate(males, females) ==
    {i \in 1..Len(males) : IsSome(males[i].candidate)}

\* positions pushed to matched_male_individuals
MatchedMales(males, females) ==
    {i \in 1..Len(males) : FirstHolder(females, males[i]) # 0}

RECURSIVE MatchedFemalesSeq(_, _, _)
\* matched_female_individuals: one push per matched male, in male order
MatchedFemalesSeq(males, females, n) ==
    IF n = 0 THEN <<>>
    ELSE LET rest == MatchedFemalesSeq(males, females, n - 1)
             j == FirstHolder(females, males[n])
         IN  IF j = 0 THEN rest ELSE Append(rest, females[j])

\* positions pushed to no_match_female_individuals
NoMatchFemales(males, females) ==
    LET matched == MatchedFemalesSeq(males, females, Len(males))
    IN  {j \in 1..Len(females) :
            \/ ~IsSome(females[j].candidate)
            \/ ~\E k \in 1..Len(matched) : matched[k] = females[j]}

\* (unmatched as f64 / total as f64) * 100.0 printed with {:.2}, in
\* hundredths of a percent; 0.0 / 0.0 is NaN
UnmatchedPercentage(unmatched, total) ==
    IF total = 0
    THEN [nan |-> TRUE, hundredths |-> 0]
    ELSE [nan |-> FALSE,
          hundredths |-> (2 * 10000 * unmatched + total) \div (2 * total)]

NoReport ==
    [printed |-> FALSE, matched_male |-> 0, matched_female |-> 0,
     no_match_male |-> 0, no_match_female |-> 0,
     male_total |-> 0, female_total |-> 0,
     unmatched_percentage |-> [nan |-> FALSE, hundredths |-> 0]]

Statistics(males, females) ==
    LET mm  == Cardinality(MatchedMales(males, females))
        mfs == Len(MatchedFemalesSeq(males, females, Len(males)))
        nf  == Cardinality(NoMatchFemales(males, females))
        nm  == Len(males) - mm
    IN  [printed |-> TRUE, matched_male |-> mm, matched_female |-> mfs,
         no_match_male |-> nm, no_match_female |-> nf,
         male_total |-> Len(males), female_total |-> Len(females),
         unmatched_percentage |->
             UnmatchedPercentage(nm + nf, Len(males) + Len(females))]

\* ---- initial states -------------------------------------------------------
\* the arguments Sample::new is called with; the loop has not started
InitNew ==
    /\ origin = "new"
    /\ population_size \in 0..MaxPop
    /\ preference_complexity \in 1..MaxD
    /\ population_size * preference_complexity <= MaxCells
    /\ specified_predefined_weights \in
          {None} \cup {Some(v) : v \in UNION {Vecs(WeightVals, n) : n \in 0..MaxD}}
    /\ male_population = <<>>
    /\ female_population = <<>>
    /\ created = 0
    /\ pc = "new"

\* a vector a caller writes into the pub fields: any length up to MaxD
LiteralVec(n) == [k \in 1..n |-> 1]

\* a Sample assembled from the pub fields of Sample and Individual, every
\* individual as Individual::new leaves it but for the length of its vectors,
\* which the caller chooses individual by individual
InitLiteral ==
    /\ origin = "literal"
    /\ \E nm \in 0..MaxLiteral, nf \in 0..MaxLiteral :
          /\ population_size = nm + nf
          /\ created = nm + nf
          /\ \E ml \in [1..nm -> 1..MaxD], fl \in [1..nf -> 1..MaxD] :
                /\ male_population =
                      [i \in 1..nm |->
                          MkIndividual(i, "Male", LiteralVec(ml[i]), LiteralVec(ml[i]))]
                /\ female_population =
                      [j \in 1..nf |->
                          MkIndividual(nm + j, "Female", LiteralVec(fl[j]), LiteralVec(fl[j]))]
    /\ preference_complexity = 0
    /\ specified_predefined_weights = None
    /\ pc = "main"

Init ==
    /\ (InitNew \/ InitLiteral)
    /\ mi = 0
    /\ fi = 0
    /\ ev = NoEv
    /\ result = "none"
    /\ current_round = 0
    /\ report = NoReport
    /\ at_call = <<male_population, female_population>>

\* ---- Sample::new ----------------------------------------------------------
\* one iteration of the loop: Individual::new succeeds, the individual is
\* pushed to the population of its gender
NewIndividual ==
    /\ pc = "new"
    /\ created < population_size
    /\ ~WrongSize(preference_complexity, specified_predefined_weights)
    /\ \E g \in Genders,
          w \in NewWeights(preference_complexity, specified_predefined_weights),
          r \in Vecs(RatingVals, preference_complexity) :
          LET individual == MkIndividual(created + 1, g, w, r)
          IN  IF g = "Female"
              THEN /\ female_population' = Append(female_population, individual)
                   /\ UNCHANGED male_population
              ELSE /\ male_population' = Append(male_population, individual)
                   /\ UNCHANGED female_population
    /\ created' = created + 1
    /\ UNCHANGED <<at_call, population_size, preference_complexity,
                   specified_predefined_weights, origin, pc, mi, fi, ev,
                   result, current_round, report>>

\* one iteration of the loop: Individual::new panics
NewPanics ==
    /\ pc = "new"
    /\ created < population_size
    /\ WrongSize(preference_complexity, specified_predefined_weights)
    /\ pc' = "panicked"
    /\ UNCHANGED <<at_call, male_population, female_population, population_size,
                   preference_complexity, specified_predefined_weights, origin,
                   created, mi, fi, ev, result, current_round, report>>

\* the loop is over: Sample::new returns the Sample to main
NewReturns ==
    /\ pc = "new"
    /\ created >= population_size
    /\ pc' = "main"
    /\ UNCHANGED <<at_call, male_population, female_population, population_size,
                   preference_complexity, specified_predefined_weights, origin,
                   created, mi, fi, ev, result, current_round, report>>

\* ---- main and Sample::match_making ----------------------------------------
config == <<population_size, preference_complexity,
            specified_predefined_weights, origin, created>>

\* main's loop calls match_making
CallMatchMaking ==
    /\ pc = "main"
    /\ current_round < MaxRounds
    /\ pc' = "match_making"
    /\ mi' = 1
    /\ fi' = 1
    /\ ev' = NoEv
    /\ at_call' = <<male_population, female_population>>
    /\ UNCHANGED <<male_population, female_population, config, result,
                   current_round, report>>

InPair ==
    /\ pc = "match_making"
    /\ mi <= Len(male_population)
    /\ fi <= Len(female_population)

\* the female is in the male's blacklist: continue
Skip ==
    /\ InPair
    /\ Contains(male_population[mi].blacklist, female_population[fi].identity)
    /\ fi' = fi + 1
    /\ ev' = [kind |-> "skip", m |-> mi, f |-> fi, score |-> None]
    /\ UNCHANGED <<at_call, male_population, female_population, config, pc, mi, result,
                   current_round, report>>

\* score returns Err and the ? operator returns it from match_making
ScoreFails ==
    /\ InPair
    /\ ~Contains(male_population[mi].blacklist, female_population[fi].identity)
    /\ ScoreMismatch(female_population[fi], male_population[mi])
    /\ pc' = "returned"
    /\ result' = "Err"
    /\ ev' = [kind |-> "error", m |-> mi, f |-> fi, score |-> None]
    /\ UNCHANGED <<at_call, male_population, female_population, config, mi, fi,
                   current_round, report>>

\* the pair is scored
Scored ==
    /\ InPair
    /\ ~Contains(male_population[mi].blacklist, female_population[fi].identity)
    /\ ~ScoreMismatch(female_population[fi], male_population[mi])

\* the female has a candidate with a higher score: the male blacklists her
Reject ==
    /\ Scored
    /\ LET score == Score(female_population[fi], male_population[mi])
       IN  /\ IsSome(female_population[fi].candidate_score)
           /\ Rejects(score, female_population[fi])
           /\ male_population' =
                 [male_population EXCEPT
                    ![mi].blacklist = Push(@, female_population[fi].identity)]
           /\ ev' = [kind |-> "reject", m |-> mi, f |-> fi, score |-> Some(score)]
    /\ fi' = fi + 1
    /\ UNCHANGED <<at_call, female_population, config, pc, mi, result, current_round,
                   report>>

WriteMaleClearStale(males, i, male_individual) ==
    [a \in 1..Len(males) |->
        IF a = i THEN male_individual
        ELSE IF males[a].candidate = male_individual.candidate
             THEN [males[a] EXCEPT !.candidate = None, !.candidate_score = None]
             ELSE males[a]]

\* liked writes through &mut male_individual: the entry of the male of the
\* outer loop, and no other male
WriteMale(males, i, male_individual) == [males EXCEPT ![i] = male_individual]

\* liked, then break: on to the next male
LikedAndBreak(score) ==
    LET pair == Liked(female_population[fi], male_population[mi], score)
    IN  /\ female_population' = [female_population EXCEPT ![fi] = pair.female]
        /\ male_population' = WriteMale(male_population, mi, pair.male)
        /\ ev' = [kind |-> "accept", m |-> mi, f |-> fi, score |-> Some(score)]
        /\ mi' = Break(mi, fi).mi
        /\ fi' = Break(mi, fi).fi
        /\ UNCHANGED <<at_call, config, pc, result, current_round, report>>

\* the female has a candidate whose score is not higher: she takes the male
AcceptDisplace ==
    /\ Scored
    /\ LET score == Score(female_population[fi], male_population[mi])
       IN  /\ IsSome(female_population[fi].candidate_score)
           /\ ~Rejects(score, female_population[fi])
           /\ LikedAndBreak(score)

\* the female has no candidate: she takes the male
AcceptFree ==
    /\ Scored
    /\ ~IsSome(female_population[fi].candidate_score)
    /\ LikedAndBreak(Score(female_population[fi], male_population[mi]))

\* the inner loop ran out of females: on to the next male
ProposerDone ==
    /\ pc = "match_making"
    /\ mi <= Len(male_population)
    /\ fi > Len(female_population)
    /\ mi' = mi + 1
    /\ fi' = 1
    /\ ev' = NoEv
    /\ UNCHANGED <<at_call, male_population, female_population, config, pc, result,
                   current_round, report>>

\* the outer loop ran out of males: return Ok(())
MatchMakingReturns ==
    /\ pc = "match_making"
    /\ mi > Len(male_population)
    /\ pc' = "returned"
    /\ result' = "Ok"
    /\ ev' = NoEv
    /\ UNCHANGED <<at_call, male_population, female_population, config, mi, fi,
                   current_round, report>>

\* main: unwrap of Err panics
UnwrapPanics ==
    /\ pc = "returned"
    /\ result = "Err"
    /\ pc' = "panicked"
    /\ UNCHANGED <<at_call, male_population, female_population, config, mi, fi, ev,
                   result, current_round, report>>

\* main: unwrap of Ok, display_statistics, current_round += 1
DisplayStatistics ==
    /\ pc = "returned"
    /\ result = "Ok"
    /\ report' = Statistics(male_population, female_population)
    /\ current_round' = current_round + 1
    /\ pc' = "main"
    /\ UNCHANGED <<at_call, male_population, female_population, config, mi, fi, ev,
                   result>>

Next ==
    \/ NewIndividual
    \/ NewPanics
    \/ NewReturns
    \/ CallMatchMaking
    \/ Skip
    \/ ScoreFails
    \/ Reject
    \/ AcceptDisplace
    \/ AcceptFree
    \/ ProposerDone
    \/ MatchMakingReturns
    \/ UnwrapPanics
    \/ DisplayStatistics

Spec == Init /\ [][Next]_vars

\* the program is one thread that runs until it panics or main's loop ends:
\* a step that is possible is taken
SpecFair == Spec /\ WF_vars(Next)

\* ---- vocabulary of the properties ------------------------------------------
NM == Len(male_population)
NF == Len(female_population)

\* the pair the inner loop is about to handle
AtPair == pc = "match_making" /\ mi <= NM /\ fi <= NF

\* identity is in the blacklist (a Vec searched by value)
Listed(individual, identity) ==
    \E k \in DOMAIN individual.blacklist : individual.blacklist[k] = identity

RECURSIVE WeightedSum(_, _)
\* sum over i of weights[i] * ratings[i], for vectors of one length
WeightedSum(weights, ratings) ==
    IF weights = <<>> THEN 0
    ELSE Head(weights) * Head(ratings) + WeightedSum(Tail(weights), Tail(ratings))

\* the numbers of the last display_statistics describe the current populations
Reported == pc = "main" /\ report.printed

\* ---- C1 --------------------------------------------------------------------
\* C1: once female F's identity is in male M's blacklist it stays there (at
\* the same place of the list) in every later state, every later visit of
\* the pair (M, F) by the inner loop takes the skip branch, and no step ever
\* again is an acceptance of M by F.
C1_BlacklistPermanent ==
    [][\A i \in 1..NM : \A k \in DOMAIN male_population[i].blacklist :
          LET fid == male_population[i].blacklist[k]
          IN  /\ Len(male_population') >= i
              /\ Len(male_population'[i].blacklist) >= k
              /\ male_population'[i].blacklist[k] = fid
              /\ (AtPair /\ mi = i /\ female_population[fi].identity = fid)
                    => ev' = [kind |-> "skip", m |-> i, f |-> fi, score |-> None]
              /\ ~(/\ ev'.kind = "accept"
                   /\ ev'.m = i
                   /\ female_population[ev'.f].identity = fid)]_vars

\* a blacklist entry made in an earlier round is skipped in a later round
C1_Witness ==
    /\ ev.kind = "skip"
    /\ current_round >= 1
    /\ Listed(male_population[ev.m], female_population[ev.f].identity)

\* ---- C2 --------------------------------------------------------------------
\* C2: in every reachable state, also in the middle of a round, every male
\* and every female has candidate Some exactly when candidate_score is Some.
C2_CandidateLockstep ==
    /\ \A i \in 1..NM :
          IsSome(male_population[i].candidate)
             <=> IsSome(male_population[i].candidate_score)
    /\ \A j \in 1..NF :
          IsSome(female_population[j].candidate)
             <=> IsSome(female_population[j].candidate_score)

\* mid-round, one male is matched and another is not yet
C2_Witness ==
    /\ AtPair
    /\ \E i \in 1..NM : IsSome(male_population[i].candidate)
    /\ \E i \in 1..NM : ~IsSome(male_population[i].candidate)
    /\ \E j \in 1..NF : IsSome(female_population[j].candidate_score)

\* ---- C3 --------------------------------------------------------------------
\* the male and the female name each other and carry the same score
Mutual(male_individual, female_individual) ==
    /\ male_individual.candidate = Some(female_individual.identity)
    /\ female_individual.candidate = Some(male_individual.identity)
    /\ IsSome(male_individual.candidate_score)
    /\ male_individual.candidate_score = female_individual.candidate_score

\* C3: right after male M is accepted by female F with score s, F.candidate
\* is M, M.candidate is F and both candidate_score fields are s; and whenever
\* a step changes the candidate of an individual, the new candidate names
\* that individual as its own candidate in the state the step produces.
C3_AcceptanceIsMutual ==
    [][/\ ev'.kind = "accept" =>
             /\ Mutual(male_population'[ev'.m], female_population'[ev'.f])
             /\ male_population'[ev'.m].candidate_score = ev'.score
       /\ \A i \in 1..NM :
             male_population'[i].candidate # male_population[i].candidate =>
                \E j \in 1..NF : Mutual(male_population'[i], female_population'[j])
       /\ \A j \in 1..NF :
             female_population'[j].candidate # female_population[j].candidate =>
                \E i \in 1..NM : Mutual(male_population'[i], female_population'[j])
      ]_vars

\* an acceptance has just happened
C3_Witness ==
    /\ ev.kind = "accept"
    /\ Mutual(male_population[ev.m], female_population[ev.f])

\* ---- C4 --------------------------------------------------------------------
\* C4 as claimed: the matched count printed for males is the number of males
\* whose candidate is Some, and the one printed for females is the number of
\* females whose candidate is Some.
C4_Original ==
    Reported =>
       /\ report.matched_male =
             Cardinality({i \in 1..NM : IsSome(male_population[i].candidate)})
       /\ report.matched_female =
             Cardinality({j \in 1..NF : IsSome(female_population[j].candidate)})

\* C4 as amended: the matched count printed for males is the number of males
\* whose identity is the candidate of at least one female (a displaced male,
\* whose own candidate is still Some, is not counted); the matched count
\* printed for females is the number of females whose candidate is Some;
\* each is printed over the size of that population.
C4_MatchedCounts ==
    Reported =>
       /\ report.matched_male =
             Cardinality({i \in 1..NM :
                 \E j \in 1..NF :
                    female_population[j].candidate = Some(male_population[i].identity)})
       /\ report.matched_female =
             Cardinality({j \in 1..NF : IsSome(female_population[j].candidate)})
       /\ report.male_total = NM
       /\ report.female_total = NF

\* statistics printed while a displaced male still has a candidate
C4_Witness ==
    /\ Reported
    /\ report.matched_male >= 1
    /\ report.matched_male <
          Cardinality({i \in 1..NM : IsSome(male_population[i].candidate)})

\* ---- C5 --------------------------------------------------------------------
\* score of male i with female j when every vector has one entry
S1(j, i) ==
    female_population[j].preference_weights[1] * male_population[i].ratings[1]

\* D = 1, two males P1, P2 and two females R1, R2 in storage order; no
\* female scores P1 higher than R1 does and none scores P2 higher than R2
NoContentionScenario ==
    /\ NM = 2
    /\ NF = 2
    /\ \A i \in 1..2 : Len(male_population[i].ratings) = 1
    /\ \A j \in 1..2 : Len(female_population[j].preference_weights) = 1
    /\ S1(1, 1) >= S1(2, 1)
    /\ S1(2, 2) >= S1(1, 2)

\* the first match_making has just returned Ok
AfterFirstRound == pc = "returned" /\ result = "Ok" /\ current_round = 0

PairedAsIntended ==
    /\ Mutual(male_population[1], female_population[1])
    /\ Mutual(male_population[2], female_population[2])

Displaces ==
    /\ AtPair
    /\ ev'.kind = "accept"
    /\ IsSome(female_population[fi].candidate)
    /\ female_population[fi].candidate # Some(male_population[mi].identity)

\* the female and the accepted male are overwritten with the new pairing,
\* the displaced male keeps candidate and candidate_score, which name her
DisplacementStep ==
    Displaces =>
       /\ Mutual(male_population'[mi], female_population'[fi])
       /\ female_population'[fi].candidate_score = ev'.score
       /\ \A a \in 1..NM :
             Some(male_population[a].identity) = female_population[fi].candidate =>
                /\ male_population'[a].candidate = male_population[a].candidate
                /\ male_population'[a].candidate_score = male_population[a].candidate_score
                /\ male_population'[a].candidate = Some(female_population[fi].identity)

\* C6 as claimed: an acceptance by a female who holds P1 overwrites her and
\* P2's candidate state and leaves P1's unchanged; and once P1, whose turn is
\* over, names a female whose candidate is a later male P2, this stays so in
\* every later state of the round, up to its end.
C6_Original ==
    [][/\ DisplacementStep
       /\ \A a \in 1..NM, b \in 1..NM, j \in 1..NF :
             (/\ pc = "match_making"
              /\ a < b
              /\ b < mi
              /\ male_population[a].candidate = Some(female_population[j].identity)
              /\ female_population[j].candidate = Some(male_population[b].identity))
             => /\ male_population'[a].candidate = Some(female_population[j].identity)
                /\ female_population'[j].candidate = Some(male_population[b].identity)
      ]_vars

\* C6 as amended: an acceptance by a female who holds P1 overwrites her and
\* P2's candidate state and leaves P1's unchanged; and once P1, whose turn is
\* over, names a female whose candidate is not P1, this stays so in every
\* later state of the round, up to its end (her candidate is P2, or a still
\* later male who displaced P2 in turn).
C6_DisplacedKeepsStaleCandidate ==
    [][/\ DisplacementStep
       /\ \A a \in 1..NM, j \in 1..NF :
             (/\ pc = "match_making"
              /\ a < mi
              /\ male_population[a].candidate = Some(female_population[j].identity)
              /\ female_population[j].candidate # Some(male_population[a].identity))
             => /\ male_population'[a].candidate = Some(female_population[j].identity)
                /\ male_population'[a].candidate_score = male_population[a].candidate_score
                /\ female_population'[j].candidate # Some(male_population[a].identity)
      ]_vars

\* a displacement has just happened: an earlier male still names the female
C6_Witness ==
    /\ ev.kind = "accept"
    /\ \E a \in 1..NM :
          /\ a < ev.m
          /\ male_population[a].candidate = Some(female_population[ev.f].identity)
          /\ female_population[ev.f].candidate = Some(male_population[ev.m].identity)

\* ---- C7 --------------------------------------------------------------------
\* C7: statistics of a Sample with no male and no female print an unmatched
\* percentage of 0, not NaN.
C7_ZeroPopulationReportsZero ==
    (Reported /\ report.male_total = 0 /\ report.female_total = 0) =>
       /\ ~report.unmatched_percentage.nan
       /\ report.unmatched_percentage.hundredths = 0

\* ---- C8 --------------------------------------------------------------------
\* Sample::new was given a weight vector whose length is not the complexity
WrongLengthSupplied ==
    /\ origin = "new"
    /\ preference_complexity >= 1
    /\ IsSome(specified_predefined_weights)
    /\ Len(Unwrap(specified_predefined_weights)) # preference_complexity

\* no individual exists and construction has not returned a Sample
NothingBuilt ==
    /\ male_population = <<>>
    /\ female_population = <<>>
    /\ created = 0
    /\ pc \in {"new", "panicked"}

\* C8 as claimed: for every population size, a supplied weight vector of the
\* wrong length makes construction fail before any individual exists.
C8_Original ==
    WrongLengthSupplied => NothingBuilt

\* C8 as amended: for every population size of at least 1, a supplied weight
\* vector of the wrong length makes construction panic in the first
\* Individual::new, before any individual exists; construction never returns
\* a Sample.  (With population size 0 no Individual::new is called and
\* Sample::new returns an empty Sample.)
C8_WrongLengthPanicsFirst ==
    (WrongLengthSupplied /\ population_size >= 1) => NothingBuilt

\* construction has panicked on a wrong-length vector
C8_Witness ==
    /\ WrongLengthSupplied
    /\ population_size >= 1
    /\ pc = "panicked"
    /\ created = 0

\* ---- C9 --------------------------------------------------------------------
\* C9: when the pair the inner loop handles is not blacklisted and the
\* female's preference_weights and the male's ratings differ in length, the
\* step returns Err from match_making and changes no individual and no loop
\* position; after that return no pair is handled any more: the only step
\* left is the panic of main's unwrap.
C9_MismatchAbortsRound ==
    [][/\ (/\ AtPair
           /\ ~Listed(male_population[mi], female_population[fi].identity)
           /\ Len(female_population[fi].preference_weights)
                 # Len(male_population[mi].ratings))
          => /\ pc' = "returned"
             /\ result' = "Err"
             /\ ev'.kind = "error"
             /\ <<male_population, female_population, mi, fi>>'
                   = <<male_population, female_population, mi, fi>>
       /\ result = "Err"
          => /\ pc' = "panicked"
             /\ <<male_population, female_population, mi, fi, current_round, report>>'
                   = <<male_population, female_population, mi, fi, current_round, report>>
      ]_vars

\* match_making has returned Err with pairs of the round left to handle
C9_Witness ==
    /\ pc = "returned"
    /\ result = "Err"
    /\ (mi < NM \/ fi < NF)

\* ---- C10 -------------------------------------------------------------------
\* C10: for every pair that is scored, the score that decides between reject
\* and accept, and that an acceptance stores in both candidate_score fields,
\* is the sum of the female's preference_weights[i] times the male's
\* ratings[i]; no step of a round changes a preference_weights or ratings
\* vector.
C10_ScoreIsResponderWeighted ==
    [][/\ (/\ AtPair
           /\ ~Listed(male_population[mi], female_population[fi].identity)
           /\ Len(female_population[fi].preference_weights)
                 = Len(male_population[mi].ratings))
          => LET s == WeightedSum(female_population[fi].preference_weights,
                                  male_population[mi].ratings)
             IN  /\ ev'.score = Some(s)
                 /\ IF /\ IsSome(female_population[fi].candidate_score)
                       /\ s < Unwrap(female_population[fi].candidate_score)
                    THEN ev'.kind = "reject"
                    ELSE /\ ev'.kind = "accept"
                         /\ female_population'[fi].candidate_score = Some(s)
                         /\ male_population'[mi].candidate_score = Some(s)
       /\ pc = "match_making" =>
             /\ \A i \in 1..NM :
                   /\ male_population'[i].preference_weights
                         = male_population[i].preference_weights
                   /\ male_population'[i].ratings = male_population[i].ratings
             /\ \A j \in 1..NF :
                   /\ female_population'[j].preference_weights
                         = female_population[j].preference_weights
                   /\ female_population'[j].ratings = female_population[j].ratings
      ]_vars

\* an acceptance whose score differs from the male's weights against the
\* female's ratings
C10_Witness ==
    /\ ev.kind = "accept"
    /\ Len(male_population[ev.m].preference_weights)
          = Len(female_population[ev.f].ratings)
    /\ ev.score = Some(WeightedSum(female_population[ev.f].preference_weights,
                                   male_population[ev.m].ratings))
    /\ ev.score # Some(WeightedSum(male_population[ev.m].preference_weights,
                                   female_population[ev.f].ratings))

\* ---- C11 -------------------------------------------------------------------
\* C11: every individual of a Sample built by Sample::new with complexity
\* D >= 1, with or without a supplied weight vector, has preference_weights
\* and ratings of length exactly D, in every state of construction and of
\* every round.
C11_VectorsHaveLengthD ==
    (origin = "new" /\ preference_complexity >= 1) =>
       /\ \A i \in 1..NM :
             /\ Len(male_population[i].preference_weights) = preference_complexity
             /\ Len(male_population[i].ratings) = preference_complexity
       /\ \A j \in 1..NF :
             /\ Len(female_population[j].preference_weights) = preference_complexity
             /\ Len(female_population[j].ratings) = preference_complexity

\* a round on individuals built from a supplied weight vector
C11_Witness ==
    /\ origin = "new"
    /\ IsSome(specified_predefined_weights)
    /\ ev.kind = "accept"
    /\ current_round >= 1
    /\ Len(female_population[ev.f].preference_weights) = preference_complexity
    /\ preference_complexity = MaxD

\* ---- C12 -------------------------------------------------------------------
\* the female would take the male: she is not in his blacklist, their vectors
\* fit, and she has no candidate or a candidate_score that is not higher
Acceptable(male_individual, female_individual) ==
    /\ ~Listed(male_individual, female_individual.identity)
    /\ Len(female_individual.preference_weights) = Len(male_individual.ratings)
    /\ \/ ~IsSome(female_individual.candidate_score)
       \/ Unwrap(female_individual.candidate_score)
             <= WeightedSum(female_individual.preference_weights,
                            male_individual.ratings)

\* C12: a male is accepted by the first female in storage order who is not
\* in his blacklist and has no candidate or a candidate_score <= his score
\* with her: whenever the inner loop meets such a female the step is an
\* acceptance, every female before her is in his blacklist by then, and the
\* acceptance ends his turn (the outer loop moves to the next male, whose
\* scan starts at the first female), so that he is accepted at most once in
\* a round and contacts no later female; within a round the outer loop never
\* goes back to an earlier male.
C12_FirstAcceptableWins ==
    [][/\ (AtPair /\ Acceptable(male_population[mi], female_population[fi]))
          => /\ ev' = [kind |-> "accept", m |-> mi, f |-> fi,
                       score |-> Some(WeightedSum(
                                    female_population[fi].preference_weights,
                                    male_population[mi].ratings))]
             /\ mi' = mi + 1
             /\ fi' = 1
             /\ pc' = "match_making"
             /\ \A j \in 1..(fi - 1) :
                   Listed(male_population[mi], female_population[j].identity)
       /\ ev'.kind = "accept"
          => (AtPair /\ Acceptable(male_population[mi], female_population[fi]))
       /\ (pc = "match_making" /\ pc' = "match_making") => mi' >= mi
      ]_vars

\* a male has just been accepted although a later female, free and not in
\* his blacklist, would have given him a higher score
C12_Witness ==
    /\ ev.kind = "accept"
    /\ \E j \in (ev.f + 1)..NF :
          /\ ~Listed(male_population[ev.m], female_population[j].identity)
          /\ ~IsSome(female_population[j].candidate)
          /\ Len(female_population[j].preference_weights)
                = Len(male_population[ev.m].ratings)
          /\ WeightedSum(female_population[j].preference_weights,
                         male_population[ev.m].ratings) > Unwrap(ev.score)

\* ---- C13 -------------------------------------------------------------------
\* C13: when the score of a male with a female who is not in his blacklist
\* equals her candidate_score, the step is an acceptance: her candidate
\* becomes the male (her previous partner is displaced and keeps his own
\* fields), the male's blacklist is unchanged and his scan stops.
C13_TieIsAccepted ==
    [][(/\ AtPair
        /\ ~Listed(male_population[mi], female_population[fi].identity)
        /\ Len(female_population[fi].preference_weights)
              = Len(male_population[mi].ratings)
        /\ female_population[fi].candidate_score
              = Some(WeightedSum(female_population[fi].preference_weights,
                                 male_population[mi].ratings)))
       => /\ ev'.kind = "accept"
          /\ female_population'[fi].candidate = Some(male_population[mi].identity)
          /\ male_population'[mi].candidate = Some(female_population[fi].identity)
          /\ female_population'[fi].candidate_score = female_population[fi].candidate_score
          /\ male_population'[mi].blacklist = male_population[mi].blacklist
          /\ \A a \in 1..NM : a # mi => male_population'[a] = male_population[a]
          /\ mi' = mi + 1
          /\ fi' = 1
      ]_vars

\* a male has just displaced another male on a tie
C13_Witness ==
    /\ ev.kind = "accept"
    /\ \E a \in 1..NM :
          /\ a # ev.m
          /\ male_population[a].candidate = Some(female_population[ev.f].identity)
          /\ male_population[a].candidate_score = ev.score
          /\ ~Listed(male_population[a], female_population[ev.f].identity)

IsPrefix(a, b) == Len(a) <= Len(b) /\ \A k \in DOMAIN a : b[k] = a[k]

\* the individual keeps what it has: a candidate and a candidate_score that
\* are Some stay Some, the blacklist keeps its entries
NothingReset(before, after) ==
    /\ IsSome(before.candidate) => IsSome(after.candidate)
    /\ IsSome(before.candidate_score) => IsSome(after.candidate_score)
    /\ IsPrefix(before.blacklist, after.blacklist)

\* C15: the candidate and candidate_score of a male change in no step but
\* his own acceptance, so a male who is accepted by no female in a round
\* (his scan runs out of females) ends the round with the candidate and
\* candidate_score he had at its start; no step, in a round or between
\* rounds, turns a candidate or candidate_score from Some to None or removes
\* a blacklist entry of any individual.
C15_NoResetWithoutAcceptance ==
    [][/\ \A i \in 1..NM :
             /\ NothingReset(male_population[i], male_population'[i])
             /\ (\/ male_population'[i].candidate # male_population[i].candidate
                 \/ male_population'[i].candidate_score
                       # male_population[i].candidate_score)
                => (AtPair /\ mi = i /\ ev'.kind = "accept" /\ ev'.m = i)
       /\ \A j \in 1..NF :
             NothingReset(female_population[j], female_population'[j])
       /\ (pc = "match_making" /\ mi <= NM /\ fi > NF)
          => <<male_population, female_population>>'
                = <<male_population, female_population>>
       /\ pc \in {"main", "returned"}
          => <<male_population, female_population>>'
                = <<male_population, female_population>>
      ]_vars

\* a later round has ended in which a displaced male was rejected by the
\* female he names and accepted by nobody: he still names her
C15_Witness ==
    /\ pc = "returned"
    /\ result = "Ok"
    /\ current_round >= 1
    /\ \E i \in 1..NM, j \in 1..NF :
          /\ male_population[i].candidate = Some(female_population[j].identity)
          /\ Listed(male_population[i], female_population[j].identity)
          /\ female_population[j].candidate # Some(male_population[i].identity)

\* ---- C16 -------------------------------------------------------------------
\* C16: when the score of a male with a female is smaller than her
\* candidate_score, the step puts the female's identity on the male's
\* blacklist and the male's identity on the female's blacklist.
C16_BothBlacklist ==
    [][(/\ AtPair
        /\ ~Listed(male_population[mi], female_population[fi].identity)
        /\ Len(female_population[fi].preference_weights)
              = Len(male_population[mi].ratings)
        /\ IsSome(female_population[fi].candidate_score)
        /\ WeightedSum(female_population[fi].preference_weights,
                       male_population[mi].ratings)
              < Unwrap(female_population[fi].candidate_score))
       => /\ Listed(male_population'[mi], female_population[fi].identity)
          /\ Listed(female_population'[fi], male_population[mi].identity)
      ]_vars

\* ---- C17 -------------------------------------------------------------------
\* C17: whenever no round is running, every female whose candidate is Some
\* names a male whose candidate is her and whose candidate_score is hers, and
\* no two females name the same male.
C17_ResponderSideMutual ==
    pc \in {"main", "returned"} =>
       /\ \A j \in 1..NF :
             IsSome(female_population[j].candidate) =>
                \E i \in 1..NM :
                   /\ female_population[j].candidate
                         = Some(male_population[i].identity)
                   /\ Mutual(male_population[i], female_population[j])
       /\ \A j \in 1..NF, k \in 1..NF :
             (/\ j # k
              /\ IsSome(female_population[j].candidate)
              /\ IsSome(female_population[k].candidate))
             => female_population[j].candidate # female_population[k].candidate

\* between two rounds a female holds one male while another male still
\* names her
C17_Witness ==
    /\ pc = "main"
    /\ current_round >= 1
    /\ \E i \in 1..NM, a \in 1..NM, j \in 1..NF :
          /\ i # a
          /\ Mutual(male_population[i], female_population[j])
          /\ male_population[a].candidate = Some(female_population[j].identity)

\* ---- C18 -------------------------------------------------------------------
\* C18: in every step, a female whose candidate_score is Some keeps a
\* candidate_score that is Some and not smaller; her candidate and
\* candidate_score change in no step but the acceptance of the male of the
\* outer loop, whose score is then her new candidate_score.
C18_ResponderScoreNeverDecreases ==
    [][\A j \in 1..NF :
          /\ IsSome(female_population[j].candidate_score) =>
                /\ IsSome(female_population'[j].candidate_score)
                /\ Unwrap(female_population'[j].candidate_score)
                      >= Unwrap(female_population[j].candidate_score)
          /\ (\/ female_population'[j].candidate # female_population[j].candidate
              \/ female_population'[j].candidate_score
                    # female_population[j].candidate_score)
             => /\ AtPair
                /\ fi = j
                /\ ev'.kind = "accept"
                /\ female_population'[j].candidate = Some(male_population[mi].identity)
                /\ female_population'[j].candidate_score = ev'.score
      ]_vars

\* a female has just taken a male with a strictly higher score than the
\* male she held
C18_Witness ==
    /\ ev.kind = "accept"
    /\ \E a \in 1..NM :
          /\ a # ev.m
          /\ male_population[a].candidate = Some(female_population[ev.f].identity)
          /\ Unwrap(male_population[a].candidate_score) < Unwrap(ev.score)

\* ---- C19 -------------------------------------------------------------------
\* a match_making has just returned Ok and has left every individual, with
\* its candidate, candidate_score and blacklist, as it found it
FixedRound ==
    /\ pc = "returned"
    /\ result = "Ok"
    /\ at_call = <<male_population, female_population>>

\* C19: unless the program panics, repeated rounds on the same population
\* reach a round that ends with every individual's candidate,
\* candidate_score and blacklist as they were at its start, also when equal
\* scores displace males inside that round.
C19_EventuallyFixedPoint == <>(FixedRound \/ pc = "panicked")

\* a round has left everything as it found it although a male displaced on
\* a tie took the female back and lost her again inside the round
C19_Witness ==
    /\ FixedRound
    /\ current_round >= 1
    /\ \E a \in 1..NM, j \in 1..NF :
          /\ male_population[a].candidate = Some(female_population[j].identity)
          /\ female_population[j].candidate # Some(male_population[a].identity)
          /\ ~Listed(male_population[a], female_population[j].identity)
    /\ \E i \in 1..NM : male_population[i].blacklist # <<>>

\* ---- C20 -------------------------------------------------------------------
\* C20: in the numbers display_statistics prints, the matched males are as
\* many as the matched females, and for each gender matched plus unmatched
\* is the size of that population.
C20_StatisticsConsistent ==
    Reported =>
       /\ report.matched_male = report.matched_female
       /\ report.matched_male + report.no_match_male = report.male_total
       /\ report.matched_female + report.no_match_female = report.female_total
       /\ report.male_total = NM
       /\ report.female_total = NF

\* statistics with matched and unmatched individuals of both genders, one
\* unmatched male having a stale candidate
C20_Witness ==
    /\ Reported
    /\ report.matched_male >= 1
    /\ report.no_match_male >= 1
    /\ report.no_match_female >= 1
    /\ \A i \in 1..NM : IsSome(male_population[i].candidate)

====
